---- MODULE Spec2Model ----
(***************************************************************************)
(* A model of blazes_iter: the three iterator tiers (Iter, ExactSizedIter, *)
(* DoubleEndedIter), the generator combinators they wrap, and the range /  *)
(* irange constructors.                                                    *)
(*                                                                         *)
(* A producer (GenFn) is a closure; it is modelled by its description: the *)
(* innermost generator (base) and the list of combinators wrapped around   *)
(* it, innermost first.  Running a producer is modelled pull by pull: one  *)
(* step asks the base generator for its next value and carries that value  *)
(* (or the end of the base) through the combinators to the consumer.       *)
(***************************************************************************)
EXTENDS Integers, Sequences, FiniteSets, TLC

VARIABLES
  heap,   \* the iterator objects constructed so far, in order of construction
  cur,    \* the traversal in progress, or the last one that ended
  call,   \* the last call of a constructor function and how it ended
  seen    \* what the first complete traversal of the source iterator delivered

vars == <<heap, cur, call, seen>>

\* ------------------------------------------------------------ bounds
\* range arguments are drawn from -MaxArg..MaxArg, steps from -MaxStep..MaxStep
MaxArg == 2
MaxStep == 2
\* arrays, sets and iterables hold at most MaxLen values of 1..MaxVal
MaxLen == 3
MaxVal == 2
\* take(n) and skip(n) are called with n in 0..MaxN
MaxN == 2
\* at most MaxObjs iterator objects are constructed in one behaviour
MaxObjs == 3
\* a traversal asks its base generator for at most MaxPulls values: enough
\* to finish every finite traversal of the sources above
MaxPulls == 2 * MaxArg + MaxLen

Args == (0 - MaxArg)..MaxArg
Steps == (0 - MaxStep)..MaxStep
Vals == 1..MaxVal
Counts == 0..MaxN

\* ------------------------------------------------------------ arithmetic
Abs(x) == IF x < 0 THEN 0 - x ELSE x

Min(a, b) == IF a <= b THEN a ELSE b

\* Math.floor(a / b) and Math.ceil(a / b) of the real quotient, b # 0
Floor(a, b) == IF b > 0 THEN a \div b ELSE (0 - a) \div (0 - b)

Ceil(a, b) == 0 - Floor(0 - a, b)

\* JavaScript's a % b: the remainder carries the sign of the dividend
Rem(a, b) == IF a >= 0 THEN a % Abs(b) ELSE 0 - ((0 - a) % Abs(b))

RECURSIVE Reverse(_)
Reverse(s) == IF s = <<>> THEN <<>> ELSE Append(Reverse(Tail(s)), Head(s))

\* ------------------------------------------------------------ callbacks
\* The functions callers pass to map, and the predicates they pass to
\* filter, takeWhile and skipWhile.  "num" elements are integers, "pair"
\* elements are the [index, value] pairs enumerate produces.
MapFns(ty) == IF ty = "num" THEN {"inc", "dbl"} ELSE {"snd"}

Preds(ty) == IF ty = "num" THEN {"odd", "lt2"} ELSE {"evenIdx"}

Apply(fn, v) ==
  CASE fn = "inc" -> v + 1
    [] fn = "dbl" -> 2 * v
    [] fn = "snd" -> v[2]

Holds(fn, v) ==
  CASE fn = "odd" -> v % 2 = 1
    [] fn = "lt2" -> v < 2
    [] fn = "evenIdx" -> v[1] % 2 = 0

\* the element type of map(fn)'s result
MapTy(fn) == "num"

\* ------------------------------------------------------------ producers
\* A combinator wrapped around a producer: its name and its argument.
Op(name, fn, n) == [op |-> name, fn |-> fn, n |-> n]

\* The innermost generators.
\* iter(array): for (let i = 0; i < input.length; i++) yield input[i]
ArrayFwd(a) == [k |-> "arrayFwd", a |-> a, start |-> 0, end |-> 0, step |-> 0]

\* iter(array): for (let i = input.length - 1; i >= 0; i--) yield input[i]
ArrayRev(a) == [k |-> "arrayRev", a |-> a, start |-> 0, end |-> 0, step |-> 0]

\* iter(set), iter(map), iter(iterable): for (const item of input) yield item
Iterable(a) == [k |-> "iterable", a |-> a, start |-> 0, end |-> 0, step |-> 0]

\* rangeGen(start, end, step): the closure keeps its three arguments
rangeGen(start, end, step) ==
  [k |-> "rangeGen", a |-> <<>>, start |-> start, end |-> end, step |-> step]

\* A producer: a base generator and the combinators around it, innermost first.
Producer(b) == [base |-> b, ops |-> <<>>]

Wrap(g, o) == [g EXCEPT !.ops = Append(@, o)]

NoGen == Producer([k |-> "none", a |-> <<>>, start |-> 0, end |-> 0, step |-> 0])

\* The loop variable of a base generator when it is first resumed.
BaseInit(b) ==
  CASE b.k = "arrayFwd" -> 0
    [] b.k = "arrayRev" -> Len(b.a) - 1
    [] b.k = "iterable" -> 0
    [] b.k = "rangeGen" -> b.start
    [] OTHER -> 0

\* One resumption of a base generator whose loop variable is i: it yields
\* v and moves to i, returns, or throws.
BYield(v, i) == [k |-> "yield", v |-> <<v>>, i |-> i]

BReturn(i) == [k |-> "return", v |-> <<>>, i |-> i]

BThrow(i) == [k |-> "throw", v |-> <<>>, i |-> i]

rangeGenNext(b, i) ==
  IF b.step = 0 THEN BThrow(i)
  ELSE LET min == Min(b.start, b.end)
           go == IF min = b.start THEN i < b.end ELSE i > b.end
       IN IF go THEN BYield(i, i + b.step) ELSE BReturn(i)

BaseNext(b, i) ==
  CASE b.k = "arrayFwd" -> IF i < Len(b.a) THEN BYield(b.a[i + 1], i + 1) ELSE BReturn(i)
    [] b.k = "arrayRev" -> IF i >= 0 THEN BYield(b.a[i + 1], i - 1) ELSE BReturn(i)
    [] b.k = "iterable" -> IF i < Len(b.a) THEN BYield(b.a[i + 1], i + 1) ELSE BReturn(i)
    [] b.k = "rangeGen" -> rangeGenNext(b, i)
    [] OTHER -> BReturn(i)

\* ------------------------------------------------------------ combinators
\* What the body of a combinator's for...of loop does with one item of its
\* source, given the combinator's local counter s: it yields v, goes on to
\* the next item without yielding, or breaks out of the loop.
Yield(v, s) == [act |-> "yield", v |-> <<v>>, s |-> s]

Next_(s) == [act |-> "next", v |-> <<>>, s |-> s]

Break(s) == [act |-> "break", v |-> <<>>, s |-> s]

enumerate(s, item) == Yield(<<s, item>>, s + 1)

map(fn, s, item) == Yield(Apply(fn, item), s)

filter(fn, s, item) == IF Holds(fn, item) THEN Yield(item, s) ELSE Next_(s)

take(n, s, item) == IF s = n THEN Break(s) ELSE Yield(item, s + 1)

takeWhile(fn, s, item) == IF ~Holds(fn, item) THEN Break(s) ELSE Yield(item, s)

skip(n, s, item) == IF s <= 0 THEN Yield(item, s - 1) ELSE Next_(s - 1)

skipWhile(fn, s, item) == IF Holds(fn, item) THEN Next_(s) ELSE Yield(item, s)

cycle(s, item) == Yield(item, s)

\* the local counter of a combinator when its generator is first resumed
StageInit(o) == IF o.op = "skip" THEN o.n ELSE 0

Stage(o, s, item) ==
  CASE o.op = "enumerate" -> enumerate(s, item)
    [] o.op = "map" -> map(o.fn, s, item)
    [] o.op = "filter" -> filter(o.fn, s, item)
    [] o.op = "take" -> take(o.n, s, item)
    [] o.op = "takeWhile" -> takeWhile(o.fn, s, item)
    [] o.op = "skip" -> skip(o.n, s, item)
    [] o.op = "skipWhile" -> skipWhile(o.fn, s, item)
    [] o.op = "cycle" -> cycle(s, item)

\* An item v enters combinator k of ops; st holds the combinators'
\* counters.  The item is carried outwards until a combinator drops it or
\* breaks, or until it leaves the outermost combinator.
RECURSIVE Push(_, _, _, _)
Push(ops, st, k, v) ==
  IF k > Len(ops) THEN [act |-> "yield", v |-> <<v>>, st |-> st, at |-> k]
  ELSE LET r == Stage(ops[k], st[k], v)
           st2 == [st EXCEPT ![k] = r.s]
       IN IF r.act = "yield" THEN Push(ops, st2, k + 1, r.v[1])
          ELSE [act |-> r.act, v |-> <<>>, st |-> st2, at |-> k]

\* The generator feeding combinator k has returned (its source ran out, or
\* its loop broke).  Every for...of loop outside it ends too, except
\* cycle's while (true), which calls its source again: the index of the
\* first cycle at or after k, or 0 when there is none.
RECURSIVE FirstCycle(_, _)
FirstCycle(ops, k) ==
  IF k > Len(ops) THEN 0
  ELSE IF ops[k].op = "cycle" THEN k
  ELSE FirstCycle(ops, k + 1)

\* ------------------------------------------------------------ the tiers
\* new Iter(gen), new ExactSizedIter(gen, len), new DoubleEndedIter(gen, rgen, len)
Iter(gen) == [tier |-> "Iter", gen |-> gen, rgen |-> NoGen, len |-> 0]

ExactSizedIter(gen, len) ==
  [tier |-> "ExactSizedIter", gen |-> gen, rgen |-> NoGen, len |-> len]

DoubleEndedIter(gen, rgen, len) ==
  [tier |-> "DoubleEndedIter", gen |-> gen, rgen |-> rgen, len |-> len]

Sized(this) == this.tier \in {"ExactSizedIter", "DoubleEndedIter"}

\* class Iter
Iter_map(this, fn) == Iter(Wrap(this.gen, Op("map", fn, 0)))

Iter_filter(this, fn) == Iter(Wrap(this.gen, Op("filter", fn, 0)))

Iter_take(this, n) == ExactSizedIter(Wrap(this.gen, Op("take", "", n)), n)

Iter_takeWhile(this, fn) == Iter(Wrap(this.gen, Op("takeWhile", fn, 0)))

Iter_skip(this, n) == Iter(Wrap(this.gen, Op("skip", "", n)))

Iter_skipWhile(this, fn) == Iter(Wrap(this.gen, Op("skipWhile", fn, 0)))

Iter_enumerate(this) == Iter(Wrap(this.gen, Op("enumerate", "", 0)))

Iter_cycle(this) == Iter(Wrap(this.gen, Op("cycle", "", 0)))

\* class ExactSizedIter extends Iter
ExactSizedIter_map(this, fn) ==
  ExactSizedIter(Wrap(this.gen, Op("map", fn, 0)), this.len)

ExactSizedIter_filter(this, fn) ==
  ExactSizedIter(Wrap(this.gen, Op("filter", fn, 0)), this.len)

ExactSizedIter_take(this, n) ==
  ExactSizedIter(Wrap(this.gen, Op("take", "", n)), n)

ExactSizedIter_takeWhile(this, fn) ==
  ExactSizedIter(Wrap(this.gen, Op("takeWhile", fn, 0)), this.len)

ExactSizedIter_skip(this, n) ==
  ExactSizedIter(Wrap(this.gen, Op("skip", "", n)), this.len - n)

ExactSizedIter_skipWhile(this, fn) ==
  ExactSizedIter(Wrap(this.gen, Op("skipWhile", fn, 0)), this.len)

ExactSizedIter_enumerate(this) ==
  ExactSizedIter(Wrap(this.gen, Op("enumerate", "", 0)), this.len)

ExactSizedIter_cycle(this) ==
  ExactSizedIter(Wrap(this.gen, Op("cycle", "", 0)), this.len)

\* class DoubleEndedIter extends ExactSizedIter
\* rev that hands on the forward producer in both places
rev_sameForward(this) == DoubleEndedIter(this.rgen, this.rgen, this.len)

rev(this) == DoubleEndedIter(this.rgen, this.gen, this.len)

DoubleEndedIter_map(this, fn) ==
  DoubleEndedIter(Wrap(this.gen, Op("map", fn, 0)),
                  Wrap(this.rgen, Op("map", fn, 0)), this.len)

DoubleEndedIter_filter(this, fn) ==
  DoubleEndedIter(Wrap(this.gen, Op("filter", fn, 0)),
                  Wrap(this.rgen, Op("filter", fn, 0)), this.len)

DoubleEndedIter_take(this, n) ==
  DoubleEndedIter(Wrap(this.gen, Op("take", "", n)),
                  Wrap(this.rgen, Op("take", "", n)), n)

DoubleEndedIter_takeWhile(this, fn) ==
  DoubleEndedIter(Wrap(this.gen, Op("takeWhile", fn, 0)),
                  Wrap(this.rgen, Op("takeWhile", fn, 0)), this.len)

DoubleEndedIter_skip(this, n) ==
  DoubleEndedIter(Wrap(this.gen, Op("skip", "", n)),
                  Wrap(this.rgen, Op("skip", "", n)), this.len - n)

DoubleEndedIter_skipWhile(this, fn) ==
  DoubleEndedIter(Wrap(this.gen, Op("skipWhile", fn, 0)),
                  Wrap(this.rgen, Op("skipWhile", fn, 0)), this.len)

DoubleEndedIter_enumerate(this) ==
  DoubleEndedIter(Wrap(this.gen, Op("enumerate", "", 0)),
                  Wrap(this.rgen, Op("enumerate", "", 0)), this.len)

DoubleEndedIter_cycle(this) ==
  DoubleEndedIter(Wrap(this.gen, Op("cycle", "", 0)),
                  Wrap(this.rgen, Op("cycle", "", 0)), this.len)

\* this.m(...): the method of the receiver's own class (override dispatch)
Method(this, m) ==
  IF this.tier = "Iter" THEN
    CASE m.op = "map" -> Iter_map(this, m.fn)
      [] m.op = "filter" -> Iter_filter(this, m.fn)
      [] m.op = "take" -> Iter_take(this, m.n)
      [] m.op = "takeWhile" -> Iter_takeWhile(this, m.fn)
      [] m.op = "skip" -> Iter_skip(this, m.n)
      [] m.op = "skipWhile" -> Iter_skipWhile(this, m.fn)
      [] m.op = "enumerate" -> Iter_enumerate(this)
      [] m.op = "cycle" -> Iter_cycle(this)
  ELSE IF this.tier = "ExactSizedIter" THEN
    CASE m.op = "map" -> ExactSizedIter_map(this, m.fn)
      [] m.op = "filter" -> ExactSizedIter_filter(this, m.fn)
      [] m.op = "take" -> ExactSizedIter_take(this, m.n)
      [] m.op = "takeWhile" -> ExactSizedIter_takeWhile(this, m.fn)
      [] m.op = "skip" -> ExactSizedIter_skip(this, m.n)
      [] m.op = "skipWhile" -> ExactSizedIter_skipWhile(this, m.fn)
      [] m.op = "enumerate" -> ExactSizedIter_enumerate(this)
      [] m.op = "cycle" -> ExactSizedIter_cycle(this)
  ELSE
    CASE m.op = "map" -> DoubleEndedIter_map(this, m.fn)
      [] m.op = "filter" -> DoubleEndedIter_filter(this, m.fn)
      [] m.op = "take" -> DoubleEndedIter_take(this, m.n)
      [] m.op = "takeWhile" -> DoubleEndedIter_takeWhile(this, m.fn)
      [] m.op = "skip" -> DoubleEndedIter_skip(this, m.n)
      [] m.op = "skipWhile" -> DoubleEndedIter_skipWhile(this, m.fn)
      [] m.op = "enumerate" -> DoubleEndedIter_enumerate(this)
      [] m.op = "cycle" -> DoubleEndedIter_cycle(this)
      [] m.op = "rev" -> rev(this)

\* ------------------------------------------------------------ constructors
\* An optional argument: <<>> when it is left out (undefined), <<x>> otherwise.
Opt(S) == {<<>>} \cup {<<x>> : x \in S}

OrElse(opt, d) == IF opt = <<>> THEN d ELSE opt[1]

Returned(v) == [err |-> "", val |-> v]

Thrown(msg) == [err |-> msg, val |-> Iter(NoGen)]

getRangeParams(arg1, arg2) ==
  LET end == OrElse(arg2, arg1)
      start == IF arg2 # <<>> THEN arg1 ELSE 0
  IN <<start, end>>

\* range/range.ts: the producer range(arg1, arg2, step); it runs rangeGen's loop
range_(arg1, arg2, step0) ==
  LET step == OrElse(step0, 1)
      se == getRangeParams(arg1, arg2)
  IN Producer(rangeGen(se[1], se[2], step))

\* range with the reverse producer started one step before end, whether or
\* not end - start is a multiple of step
range_unaligned(arg1, arg2, step0) ==
  LET step == OrElse(step0, 1)
      se == getRangeParams(arg1, arg2)
      start == se[1]
      end == se[2]
  IN IF step = 0 THEN Thrown("Step cannot be 0")
     ELSE IF (step > 0 /\ start >= end) \/ (step < 0 /\ start <= end)
     THEN Returned(DoubleEndedIter(Producer(rangeGen(0, 0, 1)),
                                   Producer(rangeGen(0, 0, 1)), 0))
     ELSE LET last == end - step
          IN Returned(DoubleEndedIter(
               Producer(rangeGen(start, end, step)),
               Producer(rangeGen(last, start - step, 0 - step)),
               Ceil(Abs(end - start), Abs(step))))

\* range with its length rounded down
range_floorLen(arg1, arg2, step0) ==
  LET step == OrElse(step0, 1)
      se == getRangeParams(arg1, arg2)
      start == se[1]
      end == se[2]
  IN IF step = 0 THEN Thrown("Step cannot be 0")
     ELSE IF (step > 0 /\ start >= end) \/ (step < 0 /\ start <= end)
     THEN Returned(DoubleEndedIter(Producer(rangeGen(0, 0, 1)),
                                   Producer(rangeGen(0, 0, 1)), 0))
     ELSE LET rem == Rem(end - start, step)
              last == end - (IF rem # 0 THEN rem ELSE step)
          IN Returned(DoubleEndedIter(
               Producer(rangeGen(start, end, step)),
               Producer(rangeGen(last, start - step, 0 - step)),
               Floor(Abs(end - start), Abs(step))))

\* range with the zero-step check left to the producers' first pull
range_lazyCheck(arg1, arg2, step0) ==
  LET step == OrElse(step0, 1)
      se == getRangeParams(arg1, arg2)
      start == se[1]
      end == se[2]
  IN IF step = 0
     THEN Returned(DoubleEndedIter(Producer(rangeGen(start, end, step)),
                                   Producer(rangeGen(end, start, step)), 0))
     ELSE IF (step > 0 /\ start >= end) \/ (step < 0 /\ start <= end)
     THEN Returned(DoubleEndedIter(Producer(rangeGen(0, 0, 1)),
                                   Producer(rangeGen(0, 0, 1)), 0))
     ELSE LET rem == Rem(end - start, step)
              last == end - (IF rem # 0 THEN rem ELSE step)
          IN Returned(DoubleEndedIter(
               Producer(rangeGen(start, end, step)),
               Producer(rangeGen(last, start - step, 0 - step)),
               Ceil(Abs(end - start), Abs(step))))

\* iter/range.ts: range(arg1, arg2, step)
range(arg1, arg2, step0) ==
  LET step == OrElse(step0, 1)
      se == getRangeParams(arg1, arg2)
      start == se[1]
      end == se[2]
  IN IF step = 0 THEN Thrown("Step cannot be 0")
     ELSE IF (step > 0 /\ start >= end) \/ (step < 0 /\ start <= end)
     THEN Returned(DoubleEndedIter(Producer(rangeGen(0, 0, 1)),
                                   Producer(rangeGen(0, 0, 1)), 0))
     ELSE LET rem == Rem(end - start, step)
              last == end - (IF rem # 0 THEN rem ELSE step)
          IN Returned(DoubleEndedIter(
               Producer(rangeGen(start, end, step)),
               Producer(rangeGen(last, start - step, 0 - step)),
               Ceil(Abs(end - start), Abs(step))))

\* iter/range.ts: irange(arg1, arg2, step)
irange(arg1, arg2, step0) ==
  LET step == OrElse(step0, 1)
      se == getRangeParams(arg1, arg2)
      start == se[1]
      end == se[2]
  IN IF step = 0 THEN Thrown("Step cannot be 0")
     ELSE LET last == IF step > 0
                      THEN start + Floor(end - start, step) * step
                      ELSE start + Ceil(end - start, step) * step
          IN Returned(DoubleEndedIter(
               Producer(rangeGen(start, last + step, step)),
               Producer(rangeGen(last, start - step, 0 - step)),
               Floor(Abs(end - start), Abs(step)) + 1))

\* iter/mod.ts: iter(input), by the shape of input
iter(input) ==
  CASE input.k = "function" -> Iter(input.gen)
    [] input.k = "array" ->
         DoubleEndedIter(Producer(ArrayFwd(input.a)), Producer(ArrayRev(input.a)),
                         Len(input.a))
    [] input.k = "set" -> ExactSizedIter(Producer(Iterable(input.a)), Len(input.a))
    [] input.k = "iterable" -> Iter(Producer(Iterable(input.a)))

\* ------------------------------------------------------------ traversals
\* A traversal of heap object id.  how = "iterate" is for (const x of it):
\* the [Symbol.iterator] of the object's class; how = "forEach" is
\* it.forEach(fn), which runs the forward producer itself.  i is the base
\* generator's loop variable, st the combinators' counters, taken the
\* counter of ExactSizedIter's [Symbol.iterator], out the items delivered
\* to the consumer so far, pulls the number of resumptions of the base.
Idle ==
  [id |-> 0, how |-> "none", status |-> "idle", i |-> 0, st |-> <<>>,
   taken |-> 0, out |-> <<>>, pulls |-> 0]

Start(this, id, how) ==
  [id |-> id, how |-> how, status |-> "run", i |-> BaseInit(this.gen.base),
   st |-> [k \in 1..Len(this.gen.ops) |-> StageInit(this.gen.ops[k])],
   taken |-> 0, out |-> <<>>, pulls |-> 0]

\* Iter[Symbol.iterator]: yield* this._gen()
Iter_iterator(this, d, item) == [d EXCEPT !.out = Append(@, item)]

\* ExactSizedIter[Symbol.iterator]
ExactSizedIter_iterator(this, d, item) ==
  IF d.taken = this.len THEN [d EXCEPT !.status = "done"]
  ELSE [d EXCEPT !.out = Append(@, item), !.taken = @ + 1]

\* forEach(fn)(gen): for (const item of gen()) fn(item)
forEach(this, d, item) == [d EXCEPT !.out = Append(@, item)]

Consume(this, d, item) ==
  IF d.how = "forEach" THEN forEach(this, d, item)
  ELSE IF Sized(this) THEN ExactSizedIter_iterator(this, d, item)
  ELSE Iter_iterator(this, d, item)

\* The generator feeding combinator k returned: the traversal ends, unless a
\* cycle at or after k starts its source (the base and the combinators
\* inside it) afresh.
Ended(g, d, k) ==
  LET c == FirstCycle(g.ops, k)
  IN IF c = 0 THEN [d EXCEPT !.status = "done"]
     ELSE [d EXCEPT !.i = BaseInit(g.base),
                    !.st = [j \in 1..Len(g.ops) |->
                              IF j < c THEN StageInit(g.ops[j]) ELSE d.st[j]]]

\* One pull: the base generator is resumed once and what it does is carried
\* through the combinators to the consumer.
Step(this, d) ==
  LET g == this.gen
      b == BaseNext(g.base, d.i)
      d1 == [d EXCEPT !.pulls = @ + 1]
  IN CASE b.k = "throw" -> [d1 EXCEPT !.status = "threw"]
       [] b.k = "return" -> Ended(g, d1, 1)
       [] b.k = "yield" ->
            LET r == Push(g.ops, d.st, 1, b.v[1])
                d2 == [d1 EXCEPT !.i = b.i, !.st = r.st]
            IN IF r.act = "yield" THEN Consume(this, d2, r.v[1])
               ELSE IF r.act = "next" THEN d2
               ELSE Ended(g, d2, r.at + 1)

\* The traversal run to its end, or for MaxPulls pulls if it has not ended.
RECURSIVE Run(_, _)
Run(this, d) ==
  IF d.status # "run" \/ d.pulls >= MaxPulls THEN d ELSE Run(this, Step(this, d))

\* [...it]
Drain(this) == Run(this, Start(this, 0, "iterate"))

\* the forward producer run by itself
DrainGen(this) == Run(this, Start(this, 0, "forEach"))

\* ------------------------------------------------------------ the heap
\* A heap entry: the object o, the type of its elements, and where it came
\* from: the constructor call src, or the method by called on object from.
NoSrc == [fn |-> "", arg1 |-> 0, arg2 |-> <<>>, step |-> <<>>, a |-> <<>>]

NoOp == Op("", "", 0)

Entry(o, ty, src, from, by) ==
  [o |-> o, ty |-> ty, src |-> src, from |-> from, by |-> by]

\* a method that updates the receiver's length in place before it returns
Transform_inPlace(h, id, m, ty) ==
  LET new == Method(h[id].o, m)
  IN Append([h EXCEPT ![id].o.len = new.len], Entry(new, ty, NoSrc, id, m))

\* m is called on heap[id]: the object it returns is new, the receiver stays
Transform(h, id, m, ty) == Append(h, Entry(Method(h[id].o, m), ty, NoSrc, id, m))

NoCall == [fn |-> "", arg1 |-> 0, arg2 |-> <<>>, step |-> <<>>, err |-> ""]

Ids == 1..Len(heap)

Room == Len(heap) < MaxObjs

\* ------------------------------------------------------------ actions
NotSeen == [n |-> 0, out |-> <<>>, len |-> 0]

Init == heap = <<>> /\ cur = Idle /\ call = NoCall /\ seen = NotSeen

\* a call of one of the range constructors with the given arguments
CallRangeFn(fn, arg1, arg2, step) ==
  LET r == IF fn = "range" THEN range(arg1, arg2, step) ELSE irange(arg1, arg2, step)
      src == [fn |-> fn, arg1 |-> arg1, arg2 |-> arg2, step |-> step, a |-> <<>>]
  IN /\ heap = <<>>
     /\ call = NoCall
     /\ call' = [fn |-> fn, arg1 |-> arg1, arg2 |-> arg2, step |-> step, err |-> r.err]
     /\ heap' = IF r.err = "" THEN <<Entry(r.val, "num", src, 0, NoOp)>> ELSE heap
     /\ UNCHANGED <<cur, seen>>

CallRange ==
  \E arg1 \in Args, arg2 \in Opt(Args), step \in Opt(Steps) :
    CallRangeFn("range", arg1, arg2, step)

CallIrange ==
  \E arg1 \in Args, arg2 \in Opt(Args), step \in Opt(Steps) :
    CallRangeFn("irange", arg1, arg2, step)

\* iter(range_(arg1, arg2, step)): the low-level producer behind a plain Iter
IterRangeGen ==
  \E arg1 \in Args, arg2 \in Opt(Args), step \in Opt(Steps) :
    LET src == [fn |-> "range_", arg1 |-> arg1, arg2 |-> arg2, step |-> step, a |-> <<>>]
        input == [k |-> "function", a |-> <<>>, gen |-> range_(arg1, arg2, step)]
    IN /\ heap = <<>>
       /\ call = NoCall
       /\ call' = [fn |-> "iter", arg1 |-> arg1, arg2 |-> arg2, step |-> step, err |-> ""]
       /\ heap' = <<Entry(iter(input), "num", src, 0, NoOp)>>
       /\ UNCHANGED <<cur, seen>>

\* it.rev()
Rev ==
  \E id \in Ids :
    /\ Room
    /\ heap[id].o.tier = "DoubleEndedIter"
    /\ heap' = Transform(heap, id, Op("rev", "", 0), heap[id].ty)
    /\ UNCHANGED <<cur, call, seen>>

\* for (const x of it) begins; a traversal in progress is abandoned
StartIterate ==
  \E id \in Ids :
    /\ cur.status # "run" \/ cur.id # id
    /\ cur' = Start(heap[id].o, id, "iterate")
    /\ UNCHANGED <<heap, call, seen>>

\* it.forEach(fn) begins
StartForEach ==
  \E id \in Ids :
    /\ cur.status # "run" \/ cur.id # id
    /\ cur' = Start(heap[id].o, id, "forEach")
    /\ UNCHANGED <<heap, call, seen>>

\* the traversal in progress pulls once
Pull ==
  /\ cur.status = "run"
  /\ cur.pulls < MaxPulls
  /\ cur' = Step(heap[cur.id].o, cur)
  /\ seen' = IF cur'.status = "done" /\ cur.id = 1 /\ cur.how = "iterate"
             THEN IF seen.n = 0
                  THEN [n |-> 1, out |-> cur'.out, len |-> heap[1].o.len]
                  ELSE [seen EXCEPT !.n = 2]
             ELSE seen
  /\ UNCHANGED <<heap, call>>

NextRange == CallRange \/ CallIrange \/ IterRangeGen \/ Rev \/ StartIterate \/ StartForEach \/ Pull

SpecRange == Init /\ [][NextRange]_vars

\* ------------------------------------------------------------ pipelines
RECURSIVE SeqsUpTo(_, _)
SeqsUpTo(S, n) ==
  IF n = 0 THEN {<<>>}
  ELSE LET shorter == SeqsUpTo(S, n - 1)
       IN shorter \cup {Append(q, x) : q \in {r \in shorter : Len(r) = n - 1}, x \in S}

Arrays == SeqsUpTo(Vals, MaxLen)

\* a Set iterates its distinct values in insertion order
Sets == {a \in Arrays : \A j, k \in 1..Len(a) : a[j] = a[k] => j = k}

\* iter(input) for an array, a Set or another iterable
CallIter(kind, a) ==
  LET src == [fn |-> kind, arg1 |-> 0, arg2 |-> <<>>, step |-> <<>>, a |-> a]
      input == [k |-> kind, a |-> a, gen |-> NoGen]
  IN /\ heap = <<>>
     /\ call = NoCall
     /\ call' = [fn |-> "iter", arg1 |-> 0, arg2 |-> <<>>, step |-> <<>>, err |-> ""]
     /\ heap' = <<Entry(iter(input), "num", src, 0, NoOp)>>
     /\ UNCHANGED <<cur, seen>>

IterArray == \E a \in Arrays : CallIter("array", a)

IterSet == \E a \in Sets : CallIter("set", a)

IterIterable == \E a \in Sets : CallIter("iterable", a)

\* range(...) over a few short ranges, as the source of a pipeline
RangeSource ==
  \E arg1 \in {0, MaxLen}, arg2 \in Opt({0, MaxLen}), step \in Opt({-1, 2}) :
    CallRangeFn("range", arg1, arg2, step)

\* it.m(...) for a method that takes a function or a count
Call(id, m, ty) ==
  /\ Room
  /\ heap' = Transform(heap, id, m, ty)
  /\ UNCHANGED <<cur, call, seen>>

Map == \E id \in Ids : \E fn \in MapFns(heap[id].ty) : Call(id, Op("map", fn, 0), MapTy(fn))

Filter ==
  \E id \in Ids : \E fn \in Preds(heap[id].ty) : Call(id, Op("filter", fn, 0), heap[id].ty)

Take == \E id \in Ids : \E n \in Counts : Call(id, Op("take", "", n), heap[id].ty)

TakeWhile ==
  \E id \in Ids : \E fn \in Preds(heap[id].ty) :
    Call(id, Op("takeWhile", fn, 0), heap[id].ty)

Skip == \E id \in Ids : \E n \in Counts : Call(id, Op("skip", "", n), heap[id].ty)

SkipWhile ==
  \E id \in Ids : \E fn \in Preds(heap[id].ty) :
    Call(id, Op("skipWhile", fn, 0), heap[id].ty)

\* enumerate is called on iterators of numbers, so pairs do not nest
Enumerate ==
  \E id \in Ids : heap[id].ty = "num" /\ Call(id, Op("enumerate", "", 0), "pair")

Cycle == \E id \in Ids : Call(id, Op("cycle", "", 0), heap[id].ty)

Next ==
  \/ IterArray \/ IterSet \/ IterIterable \/ RangeSource
  \/ Map \/ Filter \/ Take \/ TakeWhile \/ Skip \/ SkipWhile \/ Enumerate \/ Cycle \/ Rev
  \/ StartIterate \/ StartForEach \/ Pull

Spec == Init /\ [][Next]_vars

\* ------------------------------------------------------------ range claims
\* the start, end and step of the constructor call that made a heap entry
SrcStart(e) == getRangeParams(e.src.arg1, e.src.arg2)[1]

SrcEnd(e) == getRangeParams(e.src.arg1, e.src.arg2)[2]

SrcStep(e) == OrElse(e.src.step, 1)

\* v lies strictly before end in the direction of step
Before(v, end, step) == (step > 0 /\ v < end) \/ (step < 0 /\ v > end)

\* v lies past end in the direction of step
Past(v, end, step) == (step > 0 /\ v > end) \/ (step < 0 /\ v < end)

\* start, start + step, ... for as long as the value lies before end
RECURSIVE Walk(_, _, _)
Walk(v, end, step) ==
  IF Before(v, end, step) THEN <<v>> \o Walk(v + step, end, step) ELSE <<>>

IsRevOf(id, fn) ==
  /\ id \in Ids
  /\ heap[id].by.op = "rev"
  /\ heap[heap[id].from].src.fn = fn

Iterated(id) == cur.id = id /\ cur.how = "iterate" /\ cur.status = "done"

\* C1: when a traversal of range(start, end, step).rev() has ended, what it
\* delivered is the reverse of what a traversal of range(start, end, step)
\* delivers, and that traversal ends too.
C1_RevIsReverse ==
  \A id \in Ids :
    (IsRevOf(id, "range") /\ Iterated(id)) =>
      LET f == Drain(heap[heap[id].from].o)
      IN f.status = "done" /\ cur.out = Reverse(f.out)

\* a traversal of the reverse of a range with a negative step that does not
\* divide end - start has ended and delivered several values
C1_Witness ==
  \E id \in Ids :
    /\ IsRevOf(id, "range") /\ Iterated(id)
    /\ LET e == heap[heap[id].from]
       IN SrcStep(e) < -1 /\ (SrcEnd(e) - SrcStart(e)) % (0 - SrcStep(e)) # 0
    /\ Len(cur.out) >= 2

FromIrange(id) ==
  /\ id \in Ids
  /\ \/ heap[id].src.fn = "irange"
     \/ IsRevOf(id, "irange")

IrangeSrc(id) == IF heap[id].src.fn = "irange" THEN heap[id] ELSE heap[heap[id].from]

\* C2: the producers of irange(start, end, step) never deliver a value past
\* end; when the forward producer has ended, the number of values it
\* delivered is the declared len(), and the reverse producer delivers the
\* same values in reverse order.
C2_IrangeProducers ==
  \A id \in Ids :
    (FromIrange(id) /\ cur.id = id /\ cur.how = "forEach") =>
      LET e == IrangeSrc(id)
      IN /\ \A k \in 1..Len(cur.out) : ~Past(cur.out[k], SrcEnd(e), SrcStep(e))
         /\ cur.status = "done" =>
              /\ Len(cur.out) = heap[id].o.len
              /\ LET r == DrainGen(rev(heap[id].o))
                 IN r.status = "done" /\ r.out = Reverse(cur.out)

\* C3: a traversal of range(start, end, step) ends, and when it has, it
\* delivered start, start + step, ... for as long as the value lies strictly
\* before end, and len() is the number of values delivered: ceil(|end -
\* start| / |step|), or 0 when step points away from end.  The forward
\* producer run by itself delivers the same values.
C3_RangeYields ==
  \A id \in Ids :
    (heap[id].src.fn = "range" /\ cur.id = id) =>
      LET e == heap[id]
          start == SrcStart(e)
          end == SrcEnd(e)
          step == SrcStep(e)
      IN /\ cur.status = "done" \/ cur.pulls < MaxPulls
         /\ cur.status = "done" =>
              /\ cur.out = Walk(start, end, step)
              /\ e.o.len = Len(cur.out)
              /\ e.o.len = IF Before(start, end, step)
                           THEN Ceil(Abs(end - start), Abs(step)) ELSE 0

\* a traversal of a range whose step does not divide end - start has ended
\* with several values, and one of a range whose step points away from end
\* has ended with none
C3_Witness ==
  \E id \in Ids :
    /\ heap[id].src.fn = "range" /\ Iterated(id)
    /\ LET e == heap[id]
       IN /\ SrcStep(e) = 2
          /\ (SrcEnd(e) - SrcStart(e)) % 2 = 1
          /\ Len(cur.out) = 2

C3_WitnessEmpty ==
  \E id \in Ids :
    /\ heap[id].src.fn = "range" /\ Iterated(id)
    /\ SrcStep(heap[id]) < 0 /\ SrcStart(heap[id]) < SrcEnd(heap[id])
    /\ cur.out = <<>>

\* C8: a call of range or irange with step 0 ends with the error 'Step cannot
\* be 0' and returns no iterator, so nothing is ever traversed; a low-level
\* producer with step 0 throws on its first pull and delivers nothing.
C8_ZeroStep ==
  /\ (call.fn \in {"range", "irange"} /\ OrElse(call.step, 1) = 0) =>
       (call.err = "Step cannot be 0" /\ heap = <<>> /\ cur = Idle)
  /\ \A id \in Ids :
       heap[id].src.fn \in {"range", "irange"} => SrcStep(heap[id]) # 0
  /\ \A id \in Ids :
       (cur.id = id /\ heap[id].o.gen.base.k = "rangeGen"
           /\ heap[id].o.gen.base.step = 0) =>
         /\ cur.out = <<>>
         /\ cur.pulls <= 1
         /\ cur.pulls = 1 => cur.status = "threw"

\* range(start, start, 0) in its three-argument form has thrown
C8_Witness ==
  /\ call.fn = "range"
  /\ call.arg2 = <<call.arg1>>
  /\ call.step = <<0>>
  /\ call.err = "Step cannot be 0"

\* a low-level producer with step 0 has thrown on its first pull
C8_WitnessProducer ==
  /\ cur.status = "threw"
  /\ cur.pulls = 1
  /\ heap[cur.id].src.fn = "range_"

\* ------------------------------------------------------------ pipeline claims
Max(a, b) == IF a >= b THEN a ELSE b

IsSource(e) == e.src.fn \in {"array", "set", "range"}

\* C4: the declared length of S.take(n), for a sized source S, is the
\* smaller of n and the number of elements a traversal of S delivers.
C4_TakeLen ==
  \A id \in Ids :
    LET e == heap[id]
    IN (e.by.op = "take" /\ IsSource(heap[e.from]) /\ Sized(heap[e.from].o)) =>
         LET s == Drain(heap[e.from].o)
         IN s.status = "done" /\ e.o.len = Min(e.by.n, Len(s.out))

\* C5: the declared length of S.skip(n), for a sized S, is max(0, S.len() - n),
\* and no declared length is negative.
C5_SkipLen ==
  \A id \in Ids :
    LET e == heap[id]
    IN /\ (e.by.op = "skip" /\ Sized(heap[e.from].o)) =>
            e.o.len = Max(0, heap[e.from].o.len - e.by.n)
       /\ Sized(e.o) => e.o.len >= 0

\* the elements of s from the first one for which fn is false
RECURSIVE DropLeading(_, _)
DropLeading(fn, s) ==
  IF s = <<>> THEN <<>>
  ELSE IF Holds(fn, Head(s)) THEN DropLeading(fn, Tail(s))
  ELSE s

\* C6: when the producer of S.skipWhile(fn) has ended, it delivered the
\* elements of S from the first one for which fn is false, all of them.
C6_SkipWhile ==
  \A id \in Ids :
    LET e == heap[id]
    IN (e.by.op = "skipWhile" /\ cur.id = id /\ cur.how = "forEach"
          /\ cur.status = "done") =>
         LET s == DrainGen(heap[e.from].o)
         IN s.status = "done" => cur.out = DropLeading(e.by.fn, s.out)

NoCycle(g) == \A k \in 1..Len(g.ops) : g.ops[k].op # "cycle"

\* C7: when a traversal of d.rev() has ended, for a double-ended d made
\* without cycle, it delivered the reverse of what a traversal of d delivers.
C7_RevInvariant ==
  \A id \in Ids :
    LET e == heap[id]
    IN (e.by.op = "rev" /\ NoCycle(e.o.gen) /\ Iterated(id)) =>
         LET f == Drain(heap[e.from].o)
         IN f.status = "done" /\ cur.out = Reverse(f.out)

\* C9: no step changes an object that exists, and every complete traversal
\* of the source iterator after its first delivers what the first did, with
\* the same len().
C9_ReceiverUnchanged ==
  [][/\ \A id \in Ids : heap'[id] = heap[id]
     /\ (cur'.id = 1 /\ cur'.how = "iterate" /\ cur'.status = "done" /\ seen.n >= 1) =>
          (cur'.out = seen.out /\ heap'[1].o.len = seen.len)]_vars

\* the source has been traversed to its end a second time, after methods were
\* called on it and on an iterator derived from it, and a derived iterator
\* is being traversed or was
C9_Witness ==
  /\ seen.n = 2
  /\ seen.out # <<>>
  /\ Len(heap) = 3
  /\ heap[2].from = 1 /\ heap[2].by.op = "take"
  /\ heap[3].from = 2
  /\ Iterated(1)

\* C10: d.rev() holds d's reverse producer as its forward producer, d's
\* forward producer as its reverse producer and d's length; d.rev().rev()
\* delivers what d delivers, forwards and backwards, with the same length.
C10_RevSwaps ==
  \A id \in Ids :
    LET e == heap[id]
    IN e.by.op = "rev" =>
         LET d == heap[e.from].o
         IN /\ e.o.gen = d.rgen /\ e.o.rgen = d.gen /\ e.o.len = d.len
            /\ e.o.tier = "DoubleEndedIter"
            /\ heap[e.from].by.op = "rev" =>
                 LET dd == heap[heap[e.from].from].o
                 IN /\ e.o.len = dd.len
                    /\ Drain(e.o) = Drain(dd)
                    /\ Drain(rev(e.o)) = Drain(rev(dd))
                    /\ (Iterated(id) => cur.out = Drain(dd).out)

\* a traversal of d.rev().rev() has ended, for a d whose two directions differ
C10_Witness ==
  \E id \in Ids :
    /\ heap[id].by.op = "rev"
    /\ heap[heap[id].from].by.op = "rev"
    /\ Iterated(id)
    /\ Len(cur.out) >= 2
    /\ cur.out # Reverse(cur.out)

\* ------------------------------------------------------------ terminal operations
\* s is an initial part of t
IsPrefix(s, t) == Len(s) <= Len(t) /\ \A k \in 1..Len(s) : s[k] = t[k]

\* C11: for a sized iterator whose for...of traversal ends, forEach (and fold,
\* and so count) visits the elements that traversal delivers and no others:
\* what it has visited so far is an initial part of them, and all of them
\* when it has ended.
C11_TerminalsAgree ==
  \A id \in Ids :
    (Sized(heap[id].o) /\ cur.id = id /\ cur.how = "forEach") =>
      LET it == Drain(heap[id].o)
      IN it.status = "done" =>
           /\ IsPrefix(cur.out, it.out)
           /\ cur.status = "done" => cur.out = it.out

\* ------------------------------------------------------------ inclusive ranges
\* range/range.ts: the producer irange(arg1, arg2, step)
irange_(arg1, arg2, step0) ==
  LET step == OrElse(step0, 1)
      se == getRangeParams(arg1, arg2)
      start == se[1]
      end == se[2]
  IN range_(start, <<end + step>>, <<step>>)

\* the second range(arg1, arg2, step), built on the producers of range/range.ts
range_p1(arg1, arg2, step0) ==
  LET step == OrElse(step0, 1)
      se == getRangeParams(arg1, arg2)
      start == se[1]
      end == se[2]
  IN IF step = 0 THEN Thrown("Step cannot be 0")
     ELSE IF (step > 0 /\ start >= end) \/ (step < 0 /\ start <= end)
     THEN Returned(DoubleEndedIter(range_(0, <<0>>, <<>>), range_(0, <<0>>, <<>>), 0))
     ELSE LET rem == Rem(end - start, step)
              last == end - (IF rem # 0 THEN rem ELSE step)
          IN Returned(DoubleEndedIter(
               range_(start, <<end>>, <<step>>),
               range_(last, <<start - step>>, <<0 - step>>),
               Ceil(Abs(end - start), Abs(step))))

\* the second irange(arg1, arg2, step)
irange_p1(arg1, arg2, step0) ==
  LET step == OrElse(step0, 1)
      se == getRangeParams(arg1, arg2)
      start == se[1]
      end == se[2]
  IN range_p1(start, <<end + step>>, <<step>>)

\* a call of the second irange
CallIrangeP1 ==
  \E arg1 \in Args, arg2 \in Opt(Args), step \in Opt(Steps) :
    LET r == irange_p1(arg1, arg2, step)
        src == [fn |-> "irange_p1", arg1 |-> arg1, arg2 |-> arg2, step |-> step, a |-> <<>>]
    IN /\ heap = <<>>
       /\ call = NoCall
       /\ call' = [fn |-> "irange_p1", arg1 |-> arg1, arg2 |-> arg2, step |-> step,
                   err |-> r.err]
       /\ heap' = IF r.err = "" THEN <<Entry(r.val, "num", src, 0, NoOp)>> ELSE heap
       /\ UNCHANGED <<cur, seen>>

\* iter(irange_(arg1, arg2, step)): the low-level producer behind a plain Iter
IterIrangeGen ==
  \E arg1 \in Args, arg2 \in Opt(Args), step \in Opt(Steps) :
    LET src == [fn |-> "irange_", arg1 |-> arg1, arg2 |-> arg2, step |-> step, a |-> <<>>]
        input == [k |-> "function", a |-> <<>>, gen |-> irange_(arg1, arg2, step)]
    IN /\ heap = <<>>
       /\ call = NoCall
       /\ call' = [fn |-> "iter", arg1 |-> arg1, arg2 |-> arg2, step |-> step, err |-> ""]
       /\ heap' = <<Entry(iter(input), "num", src, 0, NoOp)>>
       /\ UNCHANGED <<cur, seen>>

NextIrange ==
  CallIrange \/ CallIrangeP1 \/ IterIrangeGen \/ StartIterate \/ StartForEach \/ Pull

SpecIrange == Init /\ [][NextIrange]_vars

\* step points from start towards end
Toward(start, end, step) == (step > 0 /\ start < end) \/ (step < 0 /\ start > end)

\* start, start + step, ... for as long as the value is not past end
RECURSIVE WalkIncl(_, _, _)
WalkIncl(v, end, step) ==
  IF Past(v, end, step) THEN <<>> ELSE <<v>> \o WalkIncl(v + step, end, step)

\* C12: when step points from start towards end, a traversal of any of the
\* three inclusive ranges never delivers a value past end, and when it has
\* ended it delivered start, start + step, ... up to end, which is what
\* irange of iter/range.ts delivers.
C12_IrangesAgree ==
  \A id \in Ids :
    LET e == heap[id]
    IN (e.src.fn \in {"irange", "irange_p1", "irange_"} /\ cur.id = id
          /\ cur.how = "iterate"
          /\ Toward(SrcStart(e), SrcEnd(e), SrcStep(e))) =>
         /\ \A k \in 1..Len(cur.out) : ~Past(cur.out[k], SrcEnd(e), SrcStep(e))
         /\ cur.status = "done" =>
              /\ cur.out = WalkIncl(SrcStart(e), SrcEnd(e), SrcStep(e))
              /\ cur.out = Drain(irange(e.src.arg1, e.src.arg2, e.src.step).val).out

\* the same statement for irange of iter/range.ts alone
C12_IterRangeAlone ==
  \A id \in Ids :
    LET e == heap[id]
    IN (e.src.fn = "irange" /\ cur.id = id /\ cur.how = "iterate"
          /\ Toward(SrcStart(e), SrcEnd(e), SrcStep(e))) =>
         /\ \A k \in 1..Len(cur.out) : ~Past(cur.out[k], SrcEnd(e), SrcStep(e))
         /\ cur.status = "done" =>
              cur.out = WalkIncl(SrcStart(e), SrcEnd(e), SrcStep(e))

\* ------------------------------------------------------------ take
TakenBy(id) == heap[id].by.op = "take" /\ cur.id = id /\ cur.how = "forEach"

\* C13: while the producer of P.take(n) runs, P is asked for at most n
\* elements (counted where P is a source generator, whose resumptions are the
\* pulls), and once take has delivered n elements and P was asked for any,
\* the run has ended.
C13_TakeStops ==
  \A id \in Ids :
    TakenBy(id) =>
      /\ heap[heap[id].from].o.gen.ops = <<>> => cur.pulls <= heap[id].by.n
      /\ (Len(cur.out) = heap[id].by.n /\ cur.pulls > 0) => cur.status = "done"

\* take(0) over cycle() of an empty source is still running after every pull
\* a traversal may make, having delivered nothing
C13_TakeZeroOfEmptyCycleRuns ==
  \E id \in Ids :
    /\ TakenBy(id)
    /\ heap[id].by.n = 0
    /\ heap[heap[id].from].by.op = "cycle"
    /\ heap[1].src.a = <<>> /\ heap[1].src.fn = "array"
    /\ cur.status = "run" /\ cur.pulls = MaxPulls /\ cur.out = <<>>

====
